---- MODULE Spec2Model ----
(***************************************************************************)
(* A model of ctapipe's single-telescope ("mono") Hillas reconstructor,    *)
(* ctapipe/reco/hillas_mono_reconstructor.py, of the pairwise line         *)
(* intersection it keeps as disabled code, and of the event-source         *)
(* iteration exercised by ctapipe/io/tests/test_simteleventsource.py.      *)
(*                                                                         *)
(* Numbers.  numpy float64 values are modelled as exact rationals n/d      *)
(* extended with NaN and +/-Inf, with numpy's rules for division by zero   *)
(* and for NaN/Inf propagation.  Rounding is not modelled, except in the   *)
(* square root of a non-square, which is rounded down.  Angles are named   *)
(* values whose sine and cosine are rational (0, atan(3/4), atan(4/3),     *)
(* pi/2, pi).  Quantities carry the unit the class documents for them      *)
(* (radians in the nominal frame, metres on the ground), for which         *)
(* .to(u.rad) and .to(u.m) change no number; m -> km divides by 1000.      *)
(***************************************************************************)
EXTENDS Integers, Sequences, FiniteSets, TLC

----------------------------------------------------------------------------
(* Bounds of the model *)

\* telescope IDs of an event are drawn from 1..MaxTels
MaxTels == 3
\* events in the simtel file read by the event source
MaxEvents == 5
\* iterations started over one event source
MaxIterations == 3
\* line anchor points are drawn from {0, 100, ..., 100*MaxGrid}
MaxGrid == 1

----------------------------------------------------------------------------
(* float64 arithmetic *)

Abs(i) == IF i < 0 THEN -i ELSE i

RECURSIVE Gcd(_, _)
Gcd(a, b) == IF b = 0 THEN a ELSE Gcd(b, a % b)

\* the finite number n/d (d # 0), in lowest terms with a positive denominator
Fin(n, d) ==
    LET s == IF d < 0 THEN -1 ELSE 1
        g == Gcd(Abs(n), Abs(d))
    IN  [k |-> "fin", n |-> (s * n) \div g, d |-> (s * d) \div g]

Num(i) == Fin(i, 1)
Zero == Num(0)
One == Num(1)
NaN == [k |-> "nan", n |-> 0, d |-> 1]
\* s = 1: +Inf, s = -1: -Inf
Inf(s) == [k |-> "inf", n |-> s, d |-> 1]

Sign(a) == IF a.n > 0 THEN 1 ELSE IF a.n < 0 THEN -1 ELSE 0

isnan(a) == a.k = "nan"

FNeg(a) == [a EXCEPT !.n = -a.n]

FAdd(a, b) ==
    IF a.k = "nan" \/ b.k = "nan" THEN NaN
    ELSE IF a.k = "inf" /\ b.k = "inf"
         THEN IF a.n = b.n THEN a ELSE NaN
    ELSE IF a.k = "inf" THEN a
    ELSE IF b.k = "inf" THEN b
    ELSE LET g == Gcd(a.d, b.d)
         IN  Fin(a.n * (b.d \div g) + b.n * (a.d \div g), (a.d \div g) * b.d)

FSub(a, b) == FAdd(a, FNeg(b))

FMul(a, b) ==
    IF a.k = "nan" \/ b.k = "nan" THEN NaN
    ELSE IF a.k = "inf" \/ b.k = "inf"
         THEN IF Sign(a) * Sign(b) = 0 THEN NaN ELSE Inf(Sign(a) * Sign(b))
    ELSE LET g1 == Gcd(Abs(a.n), b.d)
             g2 == Gcd(Abs(b.n), a.d)
         IN  Fin((a.n \div g1) * (b.n \div g2), (a.d \div g2) * (b.d \div g1))

\* numpy division: x/0 is +/-Inf, 0/0 and Inf/Inf are NaN, nothing is raised
FDiv(a, b) ==
    IF a.k = "nan" \/ b.k = "nan" THEN NaN
    ELSE IF b.k = "inf" THEN (IF a.k = "inf" THEN NaN ELSE Zero)
    ELSE IF a.k = "inf" THEN Inf(IF b.n < 0 THEN -a.n ELSE a.n)
    ELSE IF b.n = 0 THEN (IF a.n = 0 THEN NaN ELSE Inf(Sign(a)))
    ELSE FMul(a, Fin(b.d, b.n))

\* np.power(x, 2)
FPow2(a) == FMul(a, a)

RECURSIVE SqrtSearch(_, _, _)
SqrtSearch(n, lo, hi) ==
    IF hi - lo <= 1 THEN lo
    ELSE LET mid == (lo + hi) \div 2
         IN  IF mid * mid <= n THEN SqrtSearch(n, mid, hi)
             ELSE SqrtSearch(n, lo, mid)

\* the largest r with r*r <= n
ISqrt(n) == SqrtSearch(n, 0, 46341)

\* np.sqrt: NaN for a negative argument; exact on the square of a rational,
\* otherwise rounded down to a multiple of 1/100 (to an integer when large)
FSqrt(a) ==
    IF a.k = "nan" THEN NaN
    ELSE IF a.k = "inf" THEN (IF a.n > 0 THEN a ELSE NaN)
    ELSE IF a.n < 0 THEN NaN
    ELSE LET rn == ISqrt(a.n)
             rd == ISqrt(a.d)
         IN  IF rn * rn = a.n /\ rd * rd = a.d THEN Fin(rn, rd)
             ELSE IF a.n <= 200000 THEN Fin(ISqrt((a.n * 10000) \div a.d), 100)
             ELSE Fin(ISqrt(a.n \div a.d), 1)

\* a > b on floats: FALSE when either is NaN
FGt(a, b) ==
    IF a.k = "nan" \/ b.k = "nan" THEN FALSE
    ELSE IF a.k = "inf" THEN a.n > 0 /\ ~(b.k = "inf" /\ b.n > 0)
    ELSE IF b.k = "inf" THEN b.n < 0
    ELSE a.n * b.d > b.n * a.d

FLt(a, b) == FGt(b, a)

FAbs(a) == [a EXCEPT !.n = Abs(a.n)]

----------------------------------------------------------------------------
(* angles *)

Angles == {"0", "atan(3/4)", "atan(4/3)", "pi/2", "pi"}

\* np.cos
Cos(a) ==
    CASE a = "0" -> One
      [] a = "atan(3/4)" -> Fin(4, 5)
      [] a = "atan(4/3)" -> Fin(3, 5)
      [] a = "pi/2" -> Zero
      [] a = "pi" -> Num(-1)

\* np.sin
Sin(a) ==
    CASE a = "0" -> Zero
      [] a = "atan(3/4)" -> Fin(3, 5)
      [] a = "atan(4/3)" -> Fin(4, 5)
      [] a = "pi/2" -> One
      [] a = "pi" -> Zero

\* 90 deg - alt, for an altitude between the horizon and the zenith
ZenithOf(alt) ==
    CASE alt = "pi/2" -> "0"
      [] alt = "atan(4/3)" -> "atan(3/4)"
      [] alt = "atan(3/4)" -> "atan(4/3)"
      [] alt = "0" -> "pi/2"

----------------------------------------------------------------------------
(* the reconstructor: ctapipe/reco/hillas_mono_reconstructor.py *)

VARIABLES
    reco,       \* the HillasIntersection object: its two profile functions
    event,      \* the caller's event: Hillas parameters, positions, eps, pointing
    outcome,    \* what the last call of predict on `event` did
    memo,       \* an earlier call kept for comparison: its event and outcome
    lines,      \* two lines (point, angle) handed to intersect_lines
    crossing,   \* what intersect_lines returned for `lines`
    source      \* the event source and the iteration over it

vars == <<reco, event, outcome, memo, lines, crossing, source>>

TelIds == 1..MaxTels

\* a HillasParametersContainer in the nominal frame
Hillas(psi, cen_x, cen_y, width, length, size) ==
    [psi |-> psi, cen_x |-> cen_x, cen_y |-> cen_y,
     width |-> width, length |-> length, size |-> size]

\* elongated images along 0, pi/2 and atan(3/4); a round image (width =
\* length, no displacement); an empty image (width = length = 0)
HillasSet ==
    { Hillas("0", Zero, Zero, One, Num(2), Num(100)),
      Hillas("pi/2", Zero, Zero, One, Num(2), Num(100)),
      Hillas("atan(3/4)", Zero, Zero, One, Num(2), Num(200)),
      Hillas("0", Zero, Zero, One, One, Num(50)),
      Hillas("atan(3/4)", One, One, Zero, Zero, Num(100)) }

\* the images of an event passed as a dict: every axis along 0 ("parallel"),
\* or the axes of the even telescopes along pi/2 ("crossed"); equal sizes
DictPatterns == {"parallel", "crossed"}
DictHillas(pattern, t) ==
    Hillas(IF pattern = "crossed" /\ t % 2 = 0 THEN "pi/2" ELSE "0",
           Zero, Zero, One, Num(2), Num(100))

EpsSet == {One, Num(2)}

\* array pointing (HorizonFrame): at the zenith, and at altitude atan(4/3)
Zenith == [alt |-> "pi/2", az |-> "0"]
Directions == { Zenith, [alt |-> "atan(4/3)", az |-> "0"] }

\* telescope t stands at (100 (t - 1), 0) m in the tilted frame
LayoutX(t) == Num(100 * (t - 1))
LayoutY(t) == Zero

\* an event of one telescope whose container is passed to predict as it is
ContainerEvents ==
    { [form |-> "container",
       tels |-> [u \in {t} |-> h],
       tel_x |-> [u \in {t} |-> LayoutX(t)],
       tel_y |-> [u \in {t} |-> LayoutY(t)],
       eps |-> e, array_direction |-> Zenith] :
      t \in TelIds, h \in HillasSet, e \in EpsSet }

\* a small distant image: the centroid 0.01 rad from the source, the telescope
\* 1000 m from the core, so the height above the telescope is 100000 m
FarEvents ==
    { [form |-> "container",
       tels |-> [u \in {1} |-> Hillas("0", Fin(1, 100), Zero, One, Num(2), Num(100))],
       tel_x |-> [u \in {1} |-> Num(1000)],
       tel_y |-> [u \in {1} |-> Zero],
       eps |-> Fin(1, 50), array_direction |-> d] : d \in Directions }

\* an event of any number of telescopes passed as the documented dicts
\* (telescope ID -> container, telescope ID -> position)
DictEvents ==
    { [form |-> "dict",
       tels |-> [u \in S |-> DictHillas(pattern, u)],
       tel_x |-> [u \in S |-> LayoutX(u)],
       tel_y |-> [u \in S |-> LayoutY(u)],
       eps |-> One, array_direction |-> Zenith] :
      S \in SUBSET TelIds, pattern \in DictPatterns }

Events == ContainerEvents \cup FarEvents \cup DictEvents

\* the number of contributing telescopes of an event
NTels(ev) == Cardinality(DOMAIN ev.tels)

\* the arguments predict receives for an event
TheTel(ev) == CHOOSE t \in DOMAIN ev.tels : TRUE
hillas_parameters_of(ev) ==
    IF ev.form = "container" THEN [form |-> "container", h |-> ev.tels[TheTel(ev)]]
    ELSE [form |-> "dict", h |-> ev.tels]
tel_x_of(ev) == IF ev.form = "container" THEN ev.tel_x[TheTel(ev)] ELSE ev.tel_x
tel_y_of(ev) == IF ev.form = "container" THEN ev.tel_y[TheTel(ev)] ELSE ev.tel_y

(* what a call does: it returns a value or raises *)

NoResult == [absent |-> TRUE]
NoCall == [kind |-> "none", exc |-> "none", result |-> NoResult]
Returned(r) == [kind |-> "returned", exc |-> "none", result |-> r]
Raised(e) == [kind |-> "raised", exc |-> e, result |-> NoResult]

\* hillas_parameters.cen_x and the like: a container has the attributes of a
\* HillasParametersContainer, a dict has none of them (AttributeError)
has_attributes(hillas_parameters) == hillas_parameters.form = "container"

\* HillasIntersection.__init__
ProfileNames == {"paranal", "paranal_50km"}
HillasIntersection(atmosphere_profile_name) ==
    [thickness_profile |-> atmosphere_profile_name,
     altitude_profile |-> atmosphere_profile_name]

\* the top of the altitude table of a profile, in km; every table starts at 0
TableTop(name) == IF name = "paranal" THEN 120 ELSE 50

\* thickness_profile(altitude): the interpolation of the tabulated thickness,
\* which raises outside the table (interp1d, bounds_error)
thickness_profile(self, altitude_km) ==
    IF isnan(altitude_km) \/ FLt(altitude_km, Zero)
       \/ FGt(altitude_km, Num(TableTop(self.thickness_profile)))
    THEN [exc |-> "ValueError", depth |-> NaN]
    ELSE [exc |-> "none", depth |-> FMul(Num(10), FSub(Num(120), altitude_km))]

\* NominalFrame(x, y, array_direction) and nom.transform_to(HorizonFrame())
NominalFrame(x, y, array_direction) ==
    [frame |-> "nominal", x |-> x, y |-> y, pointing |-> array_direction]
transform_to_horizon(nom) ==
    [alt |-> [coord |-> "alt", of |-> nom], az |-> [coord |-> "az", of |-> nom]]

\* TiltedGroundFrame(x, y, pointing_direction) and project_to_ground(tilt)
TiltedGroundFrame(x, y, pointing_direction) ==
    [frame |-> "tilted", x |-> x, y |-> y, pointing |-> pointing_direction]
project_to_ground(tilt) ==
    [x |-> [coord |-> "x", of |-> tilt], y |-> [coord |-> "y", of |-> tilt]]

\* Quantity.to(u.deg) of an angle in radians (pi taken as 355/113)
rad_to_deg(a) == FMul(a, Fin(180 * 113, 355))

\* Quantity.to(u.km) of a length in metres
m_to_km(a) == FDiv(a, Num(1000))

NoPosition(e) ==
    [exc |-> e, x_pos |-> NaN, y_pos |-> NaN, err_x |-> NaN, err_y |-> NaN]

\* the weighting schemes of the averaging, and the one a call that names
\* none gets (weighting="Konrad")
Weightings == {"Konrad", "HESS"}
DefaultWeighting == "Konrad"

reconstruct_nominal(hillas_parameters, eps, weighting) ==
    IF ~has_attributes(hillas_parameters) THEN NoPosition("AttributeError")
    ELSE LET h == hillas_parameters.h
             x_pos == FSub(h.cen_x,
                           FMul(FMul(eps, FSub(One, FDiv(h.width, h.length))),
                                Cos(h.psi)))
             y_pos == FSub(h.cen_y,
                           FMul(FMul(eps, FSub(One, FDiv(h.width, h.length))),
                                Sin(h.psi)))
             var_x == Zero
             var_y == Zero
         IN  [exc |-> "none", x_pos |-> x_pos, y_pos |-> y_pos,
              err_x |-> FSqrt(var_x), err_y |-> FSqrt(var_y)]

\* a core position taken relative to the telescope's place on the ground
reconstruct_tilted_from_telescope(hillas_parameters, eps, tel_x, tel_y, weighting) ==
    IF ~has_attributes(hillas_parameters) THEN NoPosition("AttributeError")
    ELSE LET h == hillas_parameters.h
             x_pos == FSub(FAdd(tel_x, h.cen_x),
                           FMul(FMul(eps, FSub(One, FDiv(h.width, h.length))),
                                Cos(h.psi)))
             y_pos == FSub(FAdd(tel_y, h.cen_y),
                           FMul(FMul(eps, FSub(One, FDiv(h.width, h.length))),
                                Sin(h.psi)))
         IN  [exc |-> "none", x_pos |-> x_pos, y_pos |-> y_pos,
              err_x |-> FSqrt(Zero), err_y |-> FSqrt(Zero)]

reconstruct_tilted(hillas_parameters, eps, tel_x, tel_y, weighting) ==
    IF ~has_attributes(hillas_parameters) THEN NoPosition("AttributeError")
    ELSE LET h == hillas_parameters.h
             x_pos == FSub(h.cen_x,
                           FMul(FMul(eps, FSub(One, FDiv(h.width, h.length))),
                                Cos(h.psi)))
             y_pos == FSub(h.cen_y,
                           FMul(FMul(eps, FSub(One, FDiv(h.width, h.length))),
                                Sin(h.psi)))
             var_x == Zero
             var_y == Zero
         IN  [exc |-> "none", x_pos |-> x_pos, y_pos |-> y_pos,
              err_x |-> FSqrt(var_x), err_y |-> FSqrt(var_y)]

get_shower_height(source_x, source_y, cog_x, cog_y, core_x, core_y, tel_pos_x, tel_pos_y) ==
    LET disp == FSqrt(FAdd(FPow2(FSub(cog_x, source_x)),
                           FPow2(FSub(cog_y, source_y))))
        impact == FSqrt(FAdd(FPow2(FSub(tel_pos_x, core_x)),
                             FPow2(FSub(tel_pos_y, core_y))))
    IN  FDiv(impact, disp)

\* the altitude of the detector above sea level, and the height at which
\* the height of the maximum saturates, in m
DetectorAltitude == 2100
MaxHeight == 100000

\* reconstruct_xmax before the clip: the height above the telescope scaled
\* by cos(zen), with the altitude of the detector added
unclipped_height_of(source_x, source_y, core_x, core_y, hillas_parameters, tel_x, tel_y, zen) ==
    LET cog_x == hillas_parameters.h.cen_x
        cog_y == hillas_parameters.h.cen_y
        height == get_shower_height(source_x, source_y, cog_x, cog_y,
                                    core_x, core_y, tel_x, tel_y)
    IN  FAdd(FMul(height, Cos(zen)), Num(DetectorAltitude))

\* a clip that tests the threshold only, and lets NaN through
mean_height_of_nan_unchecked(source_x, source_y, core_x, core_y, hillas_parameters, tel_x, tel_y, zen) ==
    LET mean_height == unclipped_height_of(source_x, source_y, core_x, core_y,
                                           hillas_parameters, tel_x, tel_y, zen)
    IN  IF FGt(mean_height, Num(MaxHeight)) THEN Num(MaxHeight) ELSE mean_height

\* reconstruct_xmax up to the clip: the height handed to the thickness lookup
mean_height_of(source_x, source_y, core_x, core_y, hillas_parameters, tel_x, tel_y, zen) ==
    LET cog_x == hillas_parameters.h.cen_x
        cog_y == hillas_parameters.h.cen_y
        height == get_shower_height(source_x, source_y, cog_x, cog_y,
                                    core_x, core_y, tel_x, tel_y)
        mean_height == FAdd(FMul(height, Cos(zen)), Num(DetectorAltitude))
    IN  IF FGt(mean_height, Num(MaxHeight)) \/ isnan(mean_height)
        THEN Num(MaxHeight)
        ELSE mean_height

\* a lookup whose error is caught and replaced by a depth of zero
lookup_x_max_caught(self, mean_height, zen) ==
    LET looked == thickness_profile(self, m_to_km(mean_height))
    IN  IF looked.exc # "none" THEN [exc |-> "none", x_max |-> Zero]
        ELSE [exc |-> "none", x_max |-> FDiv(looked.depth, Cos(zen))]

\* reconstruct_xmax from the lookup on: the vertical depth at mean_height,
\* converted to slant depth; an error of the lookup is not caught
lookup_x_max(self, mean_height, zen) ==
    LET looked == thickness_profile(self, m_to_km(mean_height))
    IN  IF looked.exc # "none" THEN [exc |-> looked.exc, x_max |-> NaN]
        ELSE [exc |-> "none", x_max |-> FDiv(looked.depth, Cos(zen))]

reconstruct_xmax(self, source_x, source_y, core_x, core_y, hillas_parameters, tel_x, tel_y, zen) ==
    lookup_x_max(self,
                 mean_height_of(source_x, source_y, core_x, core_y,
                                hillas_parameters, tel_x, tel_y, zen),
                 zen)

\* the fields predict sets to constants
result_tel_ids == <<1>>
result_is_valid == TRUE
\* an uncertainty that is not computed reported as zero
result_h_max_uncert_zero == Zero
result_h_max_uncert == NaN
result_goodness_of_fit == NaN

predict(self, hillas_parameters, eps, tel_x, tel_y, array_direction) ==
    LET nominal == reconstruct_nominal(hillas_parameters, eps, DefaultWeighting)
        tilted == reconstruct_tilted(hillas_parameters, eps, tel_x, tel_y,
                                     DefaultWeighting)
        nom == NominalFrame(nominal.x_pos, nominal.y_pos, array_direction)
        horiz == transform_to_horizon(nom)
        tilt == TiltedGroundFrame(tilted.x_pos, tilted.y_pos, array_direction)
        grd == project_to_ground(tilt)
        x_max == reconstruct_xmax(self, nom.x, nom.y, tilt.x, tilt.y,
                                  hillas_parameters, tel_x, tel_y,
                                  ZenithOf(array_direction.alt))
        src_error == FSqrt(FAdd(FMul(nominal.err_x, nominal.err_x),
                                FMul(nominal.err_y, nominal.err_y)))
    IN  IF nominal.exc # "none" THEN Raised(nominal.exc)
        ELSE IF tilted.exc # "none" THEN Raised(tilted.exc)
        ELSE IF x_max.exc # "none" THEN Raised(x_max.exc)
        ELSE Returned(
               [alt |-> horiz.alt, az |-> horiz.az,
                core_x |-> grd.x, core_y |-> grd.y,
                core_uncert |-> FSqrt(FAdd(FMul(tilted.err_x, tilted.err_x),
                                           FMul(tilted.err_y, tilted.err_y))),
                tel_ids |-> result_tel_ids,
                average_size |-> hillas_parameters.h.size,
                is_valid |-> result_is_valid,
                alt_uncert |-> rad_to_deg(src_error),
                az_uncert |-> rad_to_deg(src_error),
                h_max |-> x_max.x_max,
                h_max_uncert |-> result_h_max_uncert,
                goodness_of_fit |-> result_goodness_of_fit])

\* a predict that loads the default atmosphere profile again on every call
self_after_predict_reloaded(self) == HillasIntersection("paranal")

\* the reconstructor after a call of predict: predict and the methods it
\* calls assign no attribute of self
self_after_predict(self) == self

\* the caller's event after a call of predict: every operation on the
\* arguments (.value, .to, *, -, np.power) builds a new value, and the
\* in-place *=, += and /= act on locals that hold such new values
event_after_predict(ev) == ev

\* predict on the arguments the caller passes for an event
predict_event(self, ev) ==
    predict(self, hillas_parameters_of(ev), ev.eps, tel_x_of(ev), tel_y_of(ev),
            ev.array_direction)

----------------------------------------------------------------------------
(* the pairwise reconstruction the file keeps as disabled (commented) code *)

\* intersect_lines with the two numerators exchanged
intersect_lines_exchanged(xp1, yp1, phi1, xp2, yp2, phi2) ==
    LET A1 == Sin(phi1)
        B1 == FMul(Num(-1), Cos(phi1))
        C1 == FSub(FMul(yp1, Cos(phi1)), FMul(xp1, Sin(phi1)))
        A2 == Sin(phi2)
        B2 == FMul(Num(-1), Cos(phi2))
        C2 == FSub(FMul(yp2, Cos(phi2)), FMul(xp2, Sin(phi2)))
        det_ab == FSub(FMul(A1, B2), FMul(A2, B1))
        det_bc == FSub(FMul(B1, C2), FMul(B2, C1))
        det_ca == FSub(FMul(C1, A2), FMul(C2, A1))
    IN  [xs |-> FDiv(det_ca, det_ab), ys |-> FDiv(det_bc, det_ab)]

\* intersect_lines with the constant term of each line taken with the
\* opposite sign of its second product
intersect_lines_plus(xp1, yp1, phi1, xp2, yp2, phi2) ==
    LET A1 == Sin(phi1)
        B1 == FMul(Num(-1), Cos(phi1))
        C1 == FAdd(FMul(yp1, Cos(phi1)), FMul(xp1, Sin(phi1)))
        A2 == Sin(phi2)
        B2 == FMul(Num(-1), Cos(phi2))
        C2 == FAdd(FMul(yp2, Cos(phi2)), FMul(xp2, Sin(phi2)))
        det_ab == FSub(FMul(A1, B2), FMul(A2, B1))
        det_bc == FSub(FMul(B1, C2), FMul(B2, C1))
        det_ca == FSub(FMul(C1, A2), FMul(C2, A1))
    IN  [xs |-> FDiv(det_bc, det_ab), ys |-> FDiv(det_ca, det_ab)]

\* intersect_lines: the crossing point of the line through (xp1, yp1) at
\* angle phi1 and the line through (xp2, yp2) at angle phi2
intersect_lines(xp1, yp1, phi1, xp2, yp2, phi2) ==
    LET sin_1 == Sin(phi1)
        cos_1 == Cos(phi1)
        A1 == sin_1
        B1 == FMul(Num(-1), cos_1)
        C1 == FSub(FMul(yp1, cos_1), FMul(xp1, sin_1))
        s2 == Sin(phi2)
        c2 == Cos(phi2)
        A2 == s2
        B2 == FMul(Num(-1), c2)
        C2 == FSub(FMul(yp2, c2), FMul(xp2, s2))
        det_ab == FSub(FMul(A1, B2), FMul(A2, B1))
        det_bc == FSub(FMul(B1, C2), FMul(B2, C1))
        det_ca == FSub(FMul(C1, A2), FMul(C2, A1))
    IN  [xs |-> FDiv(det_bc, det_ab), ys |-> FDiv(det_ca, det_ab)]

weight_konrad(p1, p2) == FDiv(FMul(p1, p2), FAdd(p1, p2))

weight_HESS(p1, p2) == FDiv(One, FAdd(FDiv(One, p1), FDiv(One, p2)))

\* |sin(|phi1 - phi2|)|, the sine of the difference taken from the sines and
\* cosines of the two angles
weight_sin(phi1, phi2) ==
    FAbs(FSub(FMul(Sin(phi1), Cos(phi2)), FMul(Cos(phi1), Sin(phi2))))

\* itertools.combinations(..., 2) over the telescopes of a dict
hillas_pairs(tels) ==
    { pr \in (DOMAIN tels) \X (DOMAIN tels) : pr[1] < pr[2] }

RECURSIVE SumOver(_, _)
\* the sum of f[p] over the pairs p of the set P
SumOver(P, f) ==
    IF P = {} THEN Zero
    ELSE LET p == CHOOSE q \in P : TRUE
         IN  FAdd(f[p], SumOver(P \ {p}, f))

\* np.average(values, weights=weights) over the pairs P, which raises
\* ZeroDivisionError when the weights sum to zero
average(P, values, weights) ==
    LET scl == SumOver(P, weights)
    IN  IF scl = Zero THEN [exc |-> "ZeroDivisionError", avg |-> NaN]
        ELSE [exc |-> "none",
              avg |-> FDiv(SumOver(P, [p \in P |-> FMul(values[p], weights[p])]),
                           scl)]

\* the disabled body of reconstruct_nominal, on a dict of two or more
\* containers: the weighted mean of the crossings of all pairs of image axes
pairwise_nominal(tels) ==
    LET P == hillas_pairs(tels)
        cross == [p \in P |->
                    intersect_lines(tels[p[1]].cen_x, tels[p[1]].cen_y, tels[p[1]].psi,
                                    tels[p[2]].cen_x, tels[p[2]].cen_y, tels[p[2]].psi)]
        weight == [p \in P |->
                     FMul(weight_konrad(tels[p[1]].size, tels[p[2]].size),
                          weight_sin(tels[p[1]].psi, tels[p[2]].psi))]
        x_pos == average(P, [p \in P |-> cross[p].xs], weight)
        y_pos == average(P, [p \in P |-> cross[p].ys], weight)
    IN  IF x_pos.exc # "none" THEN NoPosition(x_pos.exc)
        ELSE LET var_x == average(P, [p \in P |-> FPow2(FSub(cross[p].xs, x_pos.avg))],
                                  weight)
                 var_y == average(P, [p \in P |-> FPow2(FSub(cross[p].ys, y_pos.avg))],
                                  weight)
             IN  [exc |-> "none", x_pos |-> x_pos.avg, y_pos |-> y_pos.avg,
                  err_x |-> FSqrt(var_x.avg), err_y |-> FSqrt(var_y.avg)]

\* the disabled body of reconstruct_tilted: the same with each axis anchored
\* at its telescope's position on the ground
pairwise_tilted(tels, tel_x, tel_y) ==
    LET P == hillas_pairs(tels)
        cross == [p \in P |->
                    intersect_lines(tel_x[p[1]], tel_y[p[1]], tels[p[1]].psi,
                                    tel_x[p[2]], tel_y[p[2]], tels[p[2]].psi)]
        weight == [p \in P |->
                     FMul(weight_konrad(tels[p[1]].size, tels[p[2]].size),
                          weight_sin(tels[p[1]].psi, tels[p[2]].psi))]
        x_pos == average(P, [p \in P |-> cross[p].xs], weight)
        y_pos == average(P, [p \in P |-> cross[p].ys], weight)
    IN  IF x_pos.exc # "none" THEN NoPosition(x_pos.exc)
        ELSE LET var_x == average(P, [p \in P |-> FPow2(FSub(cross[p].xs, x_pos.avg))],
                                  weight)
                 var_y == average(P, [p \in P |-> FPow2(FSub(cross[p].ys, y_pos.avg))],
                                  weight)
             IN  [exc |-> "none", x_pos |-> x_pos.avg, y_pos |-> y_pos.avg,
                  err_x |-> FSqrt(var_x.avg), err_y |-> FSqrt(var_y.avg)]

----------------------------------------------------------------------------
(* the reconstructor's actions *)

\* between: predict was called on another event since the call was kept
NoMemo ==
    [set |-> FALSE, event |-> [absent |-> TRUE], outcome |-> NoCall,
     between |-> FALSE]

LinesIdle == [absent |-> TRUE]
SourceIdle == [absent |-> TRUE]

Init ==
    /\ reco \in { HillasIntersection(name) : name \in ProfileNames }
    /\ event \in Events
    /\ outcome = NoCall
    /\ memo = NoMemo
    /\ lines = LinesIdle
    /\ crossing = LinesIdle
    /\ source = SourceIdle

\* the caller moves on to another event
NextEvent ==
    /\ \E ev \in Events : event' = ev
    /\ outcome' = NoCall
    /\ UNCHANGED <<reco, memo, lines, crossing, source>>

\* the caller calls reco.predict on the event
CallPredict ==
    /\ outcome' = predict_event(reco, event)
    /\ reco' = self_after_predict(reco)
    /\ event' = event_after_predict(event)
    /\ memo' = IF memo.set /\ memo.event # event
               THEN [memo EXCEPT !.between = TRUE] ELSE memo
    /\ UNCHANGED <<lines, crossing, source>>

\* the caller keeps the event and what predict did with it
Remember ==
    /\ outcome.kind # "none"
    /\ ~memo.set
    /\ memo' = [set |-> TRUE, event |-> event, outcome |-> outcome,
                between |-> FALSE]
    /\ UNCHANGED <<reco, event, outcome, lines, crossing, source>>

Next == NextEvent \/ CallPredict \/ Remember

Spec == Init /\ [][Next]_vars

----------------------------------------------------------------------------
(* intersect_lines applied to two lines *)

GridCoords == { Num(100 * i) : i \in 0..MaxGrid }

LineInputs ==
    [xp1 : GridCoords, yp1 : GridCoords, phi1 : Angles,
     xp2 : GridCoords, yp2 : GridCoords, phi2 : Angles]

RecoIdle == [absent |-> TRUE]

InitLines ==
    /\ lines \in LineInputs
    /\ crossing = LinesIdle
    /\ reco = RecoIdle
    /\ event = RecoIdle
    /\ outcome = NoCall
    /\ memo = NoMemo
    /\ source = SourceIdle

Intersect ==
    /\ crossing = LinesIdle
    /\ crossing' = intersect_lines(lines.xp1, lines.yp1, lines.phi1,
                                   lines.xp2, lines.yp2, lines.phi2)
    /\ UNCHANGED <<lines, reco, event, outcome, memo, source>>

NextLines == Intersect

LinesSpec == InitLines /\ [][NextLines]_vars

----------------------------------------------------------------------------
(* the event source, as test_simtel_event_source_on_gamma_test_one_event    *)
(* uses it: `for event in reader` asks the source for a new iterator        *)

\* the events the source delivers in one iteration: all of the file, or
\* max_events of them (0: no max_events given)
EventLimit(src) ==
    IF src.max_events = 0 \/ src.max_events > MaxEvents THEN MaxEvents
    ELSE src.max_events

\* SimTelEventSource(input_url=..., max_events=...)
SimTelEventSource(max_events) ==
    [max_events |-> max_events,
     iterations |-> 0,      \* iterations started so far
     active |-> FALSE,      \* an iteration is under way
     position |-> 0,        \* the events the file has been read past
     delivered |-> -1,      \* event.count of the event in the loop body
     first |-> FALSE,       \* that event is the first of its iteration
     broken_at |-> -1]      \* events delivered by the iteration last abandoned

\* an iterator that reads on from where the file was left
generator_start_resumed(src) == src.position

\* where a new iterator starts reading: at the beginning of the file
generator_start(src) == 0

InitSource ==
    /\ source \in { SimTelEventSource(m) : m \in 0..MaxEvents }
    /\ lines = LinesIdle
    /\ crossing = LinesIdle
    /\ reco = RecoIdle
    /\ event = RecoIdle
    /\ outcome = NoCall
    /\ memo = NoMemo

\* `for event in reader:` begins
StartIteration ==
    /\ ~source.active
    /\ source.iterations < MaxIterations
    /\ source' = [source EXCEPT !.iterations = @ + 1, !.active = TRUE,
                                !.position = generator_start(source),
                                !.delivered = -1, !.first = FALSE]
    /\ UNCHANGED <<reco, event, outcome, memo, lines, crossing>>

\* the iterator yields the next event, whose count is its index in the file
DeliverEvent ==
    /\ source.active
    /\ source.position < EventLimit(source)
    /\ source' = [source EXCEPT !.delivered = source.position,
                                !.first = (source.delivered = -1),
                                !.position = @ + 1]
    /\ UNCHANGED <<reco, event, outcome, memo, lines, crossing>>

\* the iterator is exhausted and the loop ends
EndIteration ==
    /\ source.active
    /\ source.position >= EventLimit(source)
    /\ source' = [source EXCEPT !.active = FALSE, !.broken_at = -1]
    /\ UNCHANGED <<reco, event, outcome, memo, lines, crossing>>

\* `break` in the loop body: the iteration is abandoned part-way
BreakIteration ==
    /\ source.active
    /\ source.delivered # -1
    /\ source' = [source EXCEPT !.active = FALSE, !.broken_at = source.position]
    /\ UNCHANGED <<reco, event, outcome, memo, lines, crossing>>

NextSource == StartIteration \/ DeliverEvent \/ EndIteration \/ BreakIteration

SourceSpec == InitSource /\ [][NextSource]_vars

----------------------------------------------------------------------------
(* the claims *)

\* predict has been called on the event
Called == outcome.kind # "none"

\* the container of a one-telescope event
OnlyHillas(ev) == ev.tels[TheTel(ev)]

\* the disp estimate of the specification (4.3) for one image
DispX(h, eps) ==
    FSub(h.cen_x, FMul(FMul(eps, FSub(One, FDiv(h.width, h.length))), Cos(h.psi)))
DispY(h, eps) ==
    FSub(h.cen_y, FMul(FMul(eps, FSub(One, FDiv(h.width, h.length))), Sin(h.psi)))

\* the thickness lookup fails for the event: the height reconstruct_xmax
\* hands it is outside the table of the reconstructor's profile
LookupFails(self, ev) ==
    /\ ev.form = "container"
    /\ LET hp == hillas_parameters_of(ev)
           nominal == reconstruct_nominal(hp, ev.eps, DefaultWeighting)
           tilted == reconstruct_tilted(hp, ev.eps, tel_x_of(ev), tel_y_of(ev),
                                     DefaultWeighting)
           h == mean_height_of(nominal.x_pos, nominal.y_pos,
                               tilted.x_pos, tilted.y_pos, hp,
                               tel_x_of(ev), tel_y_of(ev),
                               ZenithOf(ev.array_direction.alt))
       IN  thickness_profile(self, m_to_km(h)).exc # "none"

\* C1: for every event with exactly one contributing telescope, predict does
\* not raise (a failed thickness lookup apart, which section 7 lets through)
\* and returns a result with is_valid = true, the disp fallback position and
\* zero reported uncertainty of the direction.
C1_SingleTelescopeFallback ==
    (Called /\ NTels(event) = 1 /\ ~LookupFails(reco, event)) =>
        /\ outcome.kind = "returned"
        /\ outcome.result.is_valid = TRUE
        /\ outcome.result.alt.of.x = DispX(OnlyHillas(event), event.eps)
        /\ outcome.result.alt.of.y = DispY(OnlyHillas(event), event.eps)
        /\ outcome.result.alt_uncert = Zero
        /\ outcome.result.az_uncert = Zero

\* C2: for every event with two or more telescopes whose pairwise weighted
\* mean exists, predict returns that weighted mean of the N (N - 1) / 2
\* crossing points as the source position in the nominal frame.
C2_PairwiseWeightedMean ==
    (Called /\ NTels(event) >= 2) =>
        LET mean == pairwise_nominal(event.tels)
        IN  /\ 2 * Cardinality(hillas_pairs(event.tels))
                 = NTels(event) * (NTels(event) - 1)
            /\ mean.exc = "none" =>
                 /\ outcome.kind = "returned"
                 /\ outcome.result.alt.of.x = mean.x_pos
                 /\ outcome.result.alt.of.y = mean.y_pos

\* the event has exactly two telescopes and their image axes are parallel
ParallelPair(ev) ==
    /\ NTels(ev) = 2
    /\ \A t, u \in DOMAIN ev.tels : ev.tels[t].psi = ev.tels[u].psi

\* C3: for an event of exactly two telescopes with identical psi, predict
\* surfaces the degenerate geometry as a recoverable failure: it returns a
\* result reported with is_valid = false.
C3_ParallelPairReportedInvalid ==
    (Called /\ ParallelPair(event)) =>
        /\ outcome.kind = "returned"
        /\ outcome.result.is_valid = FALSE

\* C4: for an event with no contributing telescope, predict does not raise
\* and does not return a valid result: it reports is_valid = false.
C4_EmptyEventReportedInvalid ==
    (Called /\ NTels(event) = 0) =>
        /\ outcome.kind = "returned"
        /\ outcome.result.is_valid = FALSE

\* C5: every result predict returns has is_valid = true, h_max_uncert = NaN
\* and goodness_of_fit = NaN.
C5_ValidWithNaNFields ==
    outcome.kind = "returned" =>
        /\ outcome.result.is_valid = TRUE
        /\ outcome.result.h_max_uncert = NaN
        /\ outcome.result.goodness_of_fit = NaN

C5_Witness ==
    /\ outcome.kind = "returned"
    /\ event \in FarEvents

C7_LookupErrorPropagates ==
    (Called /\ LookupFails(reco, event)) =>
        /\ outcome.kind = "raised"
        /\ outcome.exc = "ValueError"

C7_Witness ==
    /\ Called
    /\ LookupFails(reco, event)
    /\ outcome.exc = "ValueError"

\* telescopes at (0, 0) and (100, 0) m with image axes along 0 and pi/2
C8_Scenario ==
    [xp1 |-> Zero, yp1 |-> Zero, phi1 |-> "0",
     xp2 |-> Num(100), yp2 |-> Zero, phi2 |-> "pi/2"]

\* the tilted-frame reconstruction of the same two telescopes, equal sizes
C8_Tilted ==
    pairwise_tilted([t \in {1, 2} |->
                       Hillas(IF t = 1 THEN "0" ELSE "pi/2",
                              Zero, Zero, One, Num(2), Num(100))],
                    [t \in {1, 2} |-> IF t = 1 THEN Zero ELSE Num(100)],
                    [t \in {1, 2} |-> Zero])

C9_TelIdsAreTheEventsTelescopes ==
    outcome.kind = "returned" =>
        { outcome.result.tel_ids[i] : i \in DOMAIN outcome.result.tel_ids }
            = DOMAIN event.tels

\* C10: the first event an iteration delivers has count 0 when the iteration
\* before it was abandoned part-way, wherever it was broken off.
C10_RestartsFromBeginning ==
    (source # SourceIdle /\ source.active /\ source.first
        /\ source.broken_at # -1) =>
        source.delivered = 0

C10_Witness ==
    /\ source # SourceIdle
    /\ source.active
    /\ source.first
    /\ source.broken_at >= 2
    /\ source.delivered = 0

\* the height reconstruct_xmax computes for a container event before the clip
RawHeight(ev) ==
    LET hp == hillas_parameters_of(ev)
        nominal == reconstruct_nominal(hp, ev.eps, DefaultWeighting)
        tilted == reconstruct_tilted(hp, ev.eps, tel_x_of(ev), tel_y_of(ev),
                                     DefaultWeighting)
    IN  unclipped_height_of(nominal.x_pos, nominal.y_pos,
                            tilted.x_pos, tilted.y_pos, hp,
                            tel_x_of(ev), tel_y_of(ev),
                            ZenithOf(ev.array_direction.alt))

\* the height reconstruct_xmax hands to the thickness lookup for the event
PassedHeight(ev) ==
    LET hp == hillas_parameters_of(ev)
        nominal == reconstruct_nominal(hp, ev.eps, DefaultWeighting)
        tilted == reconstruct_tilted(hp, ev.eps, tel_x_of(ev), tel_y_of(ev),
                                     DefaultWeighting)
    IN  mean_height_of(nominal.x_pos, nominal.y_pos,
                       tilted.x_pos, tilted.y_pos, hp,
                       tel_x_of(ev), tel_y_of(ev),
                       ZenithOf(ev.array_direction.alt))

\* the height is one the clip replaces
Saturates(h) == FGt(h, Num(MaxHeight)) \/ isnan(h)

\* C11: whenever predict reaches reconstruct_xmax, the height handed to the
\* thickness lookup is not NaN and not above 100000 m: a height that, after
\* the cos(zen) scaling and the 2100 m offset, is above 100000 or NaN (a
\* displacement of zero gives an infinite or a 0/0 height) is replaced by
\* exactly 100000, any other height is handed on unchanged, and what predict
\* gives is what the lookup gives at that height.
C11_LookupHeightClipped ==
    (Called /\ event.form = "container") =>
        LET raw == RawHeight(event)
            passed == PassedHeight(event)
            looked == lookup_x_max(reco, passed, ZenithOf(event.array_direction.alt))
        IN  /\ ~isnan(passed)
            /\ ~FGt(passed, Num(MaxHeight))
            /\ Saturates(raw) => passed = Num(MaxHeight)
            /\ ~Saturates(raw) => passed = raw
            /\ looked.exc # "none" => outcome = Raised(looked.exc)
            /\ looked.exc = "none" =>
                   /\ outcome.kind = "returned"
                   /\ outcome.result.h_max = looked.x_max

\* the other cases of the clip: an infinite height, a finite height above
\* the threshold, and a height handed on unchanged
C11_CasesReached ==
    /\ \E ev \in ContainerEvents : RawHeight(ev) = Inf(1)
    /\ \E ev \in FarEvents : RawHeight(ev).k = "fin" /\ Saturates(RawHeight(ev))
    /\ \E ev \in Events : ev.form = "container" /\ ~Saturates(RawHeight(ev))

\* the clip has acted on a 0/0 height, and the events cover its other cases
C11_Witness ==
    /\ Called
    /\ event.form = "container"
    /\ isnan(RawHeight(event))
    /\ PassedHeight(event) = Num(MaxHeight)
    /\ C11_CasesReached

\* det = A1 B2 - A2 B1 of two lines at the angles phi1 and phi2
Det(phi1, phi2) ==
    FSub(FMul(Sin(phi1), FMul(Num(-1), Cos(phi2))),
         FMul(Sin(phi2), FMul(Num(-1), Cos(phi1))))

\* the point (x, y) lies on the line through (xp, yp) with direction phi:
\* its offset from (xp, yp) has no component across (cos phi, sin phi)
OnLine(x, y, xp, yp, phi) ==
    FSub(FMul(Sin(phi), FSub(x, xp)), FMul(Cos(phi), FSub(y, yp))) = Zero

\* C12: for two lines, each given by a point and an angle, whose det is not
\* zero, the point intersect_lines returns lies on the line through
\* (xp1, yp1) with direction phi1 and on the line through (xp2, yp2) with
\* direction phi2: it is the crossing point of the two lines.
C12_CrossingLiesOnBothLines ==
    (crossing # LinesIdle /\ Det(lines.phi1, lines.phi2) # Zero) =>
        /\ crossing.xs.k = "fin"
        /\ crossing.ys.k = "fin"
        /\ OnLine(crossing.xs, crossing.ys, lines.xp1, lines.yp1, lines.phi1)
        /\ OnLine(crossing.xs, crossing.ys, lines.xp2, lines.yp2, lines.phi2)

\* two oblique lines through different points have been intersected, and
\* the crossing is neither of the two points
C12_Witness ==
    /\ crossing # LinesIdle
    /\ lines.phi1 = "atan(3/4)"
    /\ lines.phi2 = "atan(4/3)"
    /\ <<lines.xp1, lines.yp1>> # <<lines.xp2, lines.yp2>>
    /\ Det(lines.phi1, lines.phi2) # Zero
    /\ <<crossing.xs, crossing.ys>> # <<lines.xp1, lines.yp1>>
    /\ <<crossing.xs, crossing.ys>> # <<lines.xp2, lines.yp2>>

\* ground positions a caller may pass for the telescope of an image
GroundCoords == { LayoutX(t) : t \in TelIds } \cup { Num(-100) }

====
